---- MODULE Spec2Model ----
(***************************************************************************)
(* QR Scanner v7.25: the scan / lock / record / finalize session machine   *)
(* (QRScanner, QRRecorder, QRApp) together with the license and daily      *)
(* usage machine (QRLicense, QRStorage) and the order history (QROrders).  *)
(*                                                                         *)
(* Time is Date.now() in milliseconds.  Dates are day numbers (the UTC     *)
(* date of toISOString; local dates are taken in the same zone).           *)
(* localStorage writes are taken to succeed.                               *)
(***************************************************************************)
EXTENDS Integers, Sequences, FiniteSets, TLC

\* ------------------------------------------------------------------ bounds
\* The clock advances by TickMs while a session runs and by JumpHours between
\* sessions: now = j * JumpMs + k * TickMs with j <= MaxJumps, k * TickMs <= MaxSessionMs.
TickMs == 5000
MaxSessionMs == 20000
JumpHours == 12
MaxJumps == 3
\* detectedProducts, pending recorder stop events and collected chunks are unbounded
\* in the program; the model stops producing them at these sizes.
MaxProducts == 3
MaxPendingStops == 1
MaxChunks == 1
\* recordings started in one behaviour of the session machine, and of the visits
MaxRecordings == 1
MaxVisitRecordings == 2
\* the order cap CONFIG.LIMITS.MAX_ORDERS scaled down for the order store driven
\* through its public interface
OrdersCap == 2
\* activateAPI requests awaiting their answer at one time
MaxPendingActivations == 1

\* ------------------------------------------------------- program constants
SCAN_LOCK_MS == 10000
FREE_DAILY_LIMIT == 100
MAX_ORDERS == 100000
AUTO_DELETE_DAYS == 60
GRACE_PERIOD_HOURS == 24
RENEWAL_WARNING_DAYS == 5
DEFAULT_POST_BUFFER == 3000
DEFAULT_SCAN_INTERVAL == 333
\* activateAPI rejects keys shorter than this
ApiKeyMinLength == 30
HourMs == 1000 * 60 * 60
DayMs == 1000 * 60 * 60 * 24
JumpMs == JumpHours * HourMs

None == "none"
Codes == {"A", "B"}
VisitCodes == {"A"}
\* keys handed to activateAPI: too short, one key in lower and in upper case, another key
ApiKeys ==
    {"K1", "aaaaaaaaaa-bbbbbbbbbb-aaaaaaaaaa", "AAAAAAAAAA-BBBBBBBBBB-AAAAAAAAAA",
     "BBBBBBBBBB-AAAAAAAAAA-BBBBBBBBBB"}
\* answers to the activation request: success, the two rejections, no usable answer
Responses == {"success", "mismatch", "rejected", "transport"}
\* values the post-buffer select offers: the default, and one as long as the scan lock
PostBufferChoices == {DEFAULT_POST_BUFFER, SCAN_LOCK_MS}
\* orderData.qrCode values handed to ORDERS.add (None: no qrCode property), and queries
\* ids handed to ORDERS.delete: the instants at which an order can have been added
OrderIds == {0, TickMs}
OrderCodes == {"A", " b", " ", None}
Queries == {"A", " b", " ", "Unknown", "", "01"}
\* JavaScript's undefined for a numeric field
Undef == -1

VARIABLES
    now,        \* Date.now()
    app,        \* QRApp.state: initialized, currentQR, scanLoopId
    stopTimers, \* due times of the pending post-buffer setTimeout callbacks
    scanner,    \* QRScanner.state
    recorder,   \* QRRecorder.state
    pendingStops, \* MediaRecorder instances stopped whose stop event is not yet dispatched
    saving,     \* handleRecordingStop invocations suspended at await saveToFolder
    camStart,   \* progress of the asynchronous camera start
    license,    \* QRLicense.state
    store,      \* localStorage and the license cookie
    orders,     \* QROrders' in-memory list
    recordingsLeft, \* number of recordings that may still be started
    activation, \* keys of the activateAPI requests whose answer is awaited
    op,         \* the handler that ran last, with its argument
    emitted     \* the callbacks triggered by that handler, in order

vars == <<now, app, stopTimers, scanner, recorder, pendingStops, saving, camStart,
          license, store, orders, recordingsLeft, activation, op, emitted>>

\* ------------------------------------------------------------ small helpers
Ev(name, arg) == <<name, arg>>

Count(seq, x) == Cardinality({i \in 1..Len(seq) : seq[i] = x})

Today(t) == t \div DayMs

\* Math.ceil(a / b) for b > 0
CeilDiv(a, b) == -((-a) \div b)

\* x || 0 for a number that may be undefined
OrZero(x) == IF x = Undef THEN 0 ELSE x

\* ------------------------------------------------------------------ QRScanner
ScannerInit ==
    [lastQR |-> None, lastScanTime |-> 0, scanBlocked |-> FALSE,
     scanBlockedUntil |-> 0, detectedProducts |-> <<>>,
     scanInterval |-> DEFAULT_SCAN_INTERVAL]

\* scanFrame's lock check and rate limit: the scanner state after the call and
\* whether a decode is attempted (the decode result is the caller's input).
ScanFrameUnblocks(s, t) == s.scanBlocked /\ t >= s.scanBlockedUntil

\* variant of scanFrame without the rate limit
ScanFrameDecodesUnlimited(s, t) == ~(s.scanBlocked /\ t < s.scanBlockedUntil)

ScanFrameDecodes(s, t) ==
    /\ ~(s.scanBlocked /\ t < s.scanBlockedUntil)
    /\ ~(t - s.lastScanTime < s.scanInterval)

ScanFrameState(s, t) ==
    LET u == IF ScanFrameUnblocks(s, t) THEN [s EXCEPT !.scanBlocked = FALSE] ELSE s
    IN IF ScanFrameDecodes(s, t) THEN [u EXCEPT !.lastScanTime = t] ELSE u

\* variant of the duplicate check that never ignores a code
ProcessQRNeverIgnored(s, qr) == FALSE

\* processQR: ignored when the same code arrives while blocked
ProcessQRIgnored(s, qr) == qr = s.lastQR /\ s.scanBlocked

IsNewQR(s, qr) == qr # s.lastQR

\* variant of processQR that empties detectedProducts when a code is seen again
ProcessQRForgetful(s, qr, t) ==
    [s EXCEPT !.scanBlocked = TRUE,
              !.scanBlockedUntil = t + SCAN_LOCK_MS,
              !.lastQR = qr,
              !.detectedProducts = IF qr # s.lastQR THEN Append(@, qr) ELSE <<>>]

ProcessQRState(s, qr, t) ==
    IF ProcessQRIgnored(s, qr) THEN s
    ELSE [s EXCEPT !.scanBlocked = TRUE,
                   !.scanBlockedUntil = t + SCAN_LOCK_MS,
                   !.lastQR = qr,
                   !.detectedProducts =
                       IF IsNewQR(s, qr) THEN Append(@, qr) ELSE @]

ResetSessionState(s) ==
    [s EXCEPT !.lastQR = None, !.scanBlocked = FALSE,
              !.scanBlockedUntil = 0, !.detectedProducts = <<>>]

\* ------------------------------------------------------------------ QRStorage
NoLicense == [present |-> FALSE, licenseKey |-> "", expiresAt |-> 0]
NoGrace == [present |-> FALSE, expiredAt |-> 0, graceEndAt |-> 0]
NoDaily == [present |-> FALSE, date |-> 0, used |-> 0]

LicenseRecord(key, expiresAt) ==
    [present |-> TRUE, licenseKey |-> key, expiresAt |-> expiresAt]

\* encodeURIComponent and decodeURIComponent on the characters that occur in keys:
\* letters, digits and "-" are kept, a space and "%" are escaped
EncodeChar(c) ==
    CASE c = " " -> "%20" [] c = "%" -> "%25" [] OTHER -> c

RECURSIVE EncodeURIComponent(_)
EncodeURIComponent(str) ==
    IF str = "" THEN ""
    ELSE EncodeChar(SubSeq(str, 1, 1)) \o EncodeURIComponent(SubSeq(str, 2, Len(str)))

DecodeEscape(hex) ==
    CASE hex = "20" -> " " [] hex = "25" -> "%"

RECURSIVE DecodeURIComponent(_)
DecodeURIComponent(str) ==
    IF str = "" THEN ""
    ELSE IF SubSeq(str, 1, 1) = "%"
         THEN DecodeEscape(SubSeq(str, 2, 3)) \o DecodeURIComponent(SubSeq(str, 4, Len(str)))
         ELSE SubSeq(str, 1, 1) \o DecodeURIComponent(SubSeq(str, 2, Len(str)))

\* saveLicense: localStorage plus the cookie backup, whose value is URI-encoded
SaveLicense(st, rec) ==
    [st EXCEPT !.license = rec,
               !.cookie = [rec EXCEPT !.licenseKey = EncodeURIComponent(@)]]

\* variant of loadLicense that takes the cookie value as it is stored
LoadLicenseRaw(st) ==
    IF st.license.present THEN st.license
    ELSE IF st.cookie.present THEN st.cookie
    ELSE NoLicense

\* loadLicense: localStorage first, then the cookie, which is restored to localStorage
LoadLicense(st) ==
    IF st.license.present THEN st.license
    ELSE IF st.cookie.present
         THEN [st.cookie EXCEPT !.licenseKey = DecodeURIComponent(@)]
    ELSE NoLicense

LoadLicenseStore(st) ==
    IF ~st.license.present /\ st.cookie.present
    THEN [st EXCEPT !.license = LoadLicense(st)]
    ELSE st

ClearLicense(st) == [st EXCEPT !.license = NoLicense, !.cookie = NoLicense]

\* variant of clearOrders that leaves the stored list
ClearOrdersNot(st) == st

ClearOrders(st) == [st EXCEPT !.orders = <<>>]

\* saveOrders keeps the last MAX_ORDERS entries of the list it is given
SaveOrdersMax(st, list, max) ==
    [st EXCEPT !.orders =
        IF Len(list) > max THEN SubSeq(list, Len(list) - max + 1, Len(list)) ELSE list]

SaveOrders(st, list) == SaveOrdersMax(st, list, MAX_ORDERS)

GetDailyUsage(st, t) ==
    IF st.daily.present /\ st.daily.date = Today(t)
    THEN st.daily
    ELSE [present |-> TRUE, date |-> Today(t), used |-> 0]

IncrementDailyUsage(st, t) ==
    [st EXCEPT !.daily = [GetDailyUsage(st, t) EXCEPT !.used = @ + 1]]

ResetDailyUsage(st, t) ==
    [st EXCEPT !.daily = [present |-> TRUE, date |-> Today(t), used |-> 0]]

\* variant of setGracePeriod whose window has no length
SetGracePeriodNoHours(st, expiredAt) ==
    [st EXCEPT !.grace = [present |-> TRUE, expiredAt |-> expiredAt,
                          graceEndAt |-> expiredAt]]

SetGracePeriod(st, expiredAt) ==
    [st EXCEPT !.grace = [present |-> TRUE, expiredAt |-> expiredAt,
                          graceEndAt |-> expiredAt + GRACE_PERIOD_HOURS * HourMs]]

ClearGracePeriod(st) == [st EXCEPT !.grace = NoGrace]

\* ------------------------------------------------------------------ QROrders
\* addOrder's new record; orderData.qrCode || 'Unknown', orderData.productCount || 0
NewOrder(data, t) ==
    [id |-> t,
     qrCode |-> IF data.qrCode \in {None, ""} THEN "Unknown" ELSE data.qrCode,
     date |-> Today(t),
     time |-> t % DayMs,
     duration |-> OrZero(data.duration),
     productCount |-> OrZero(data.productCount)]

\* variant of addOrder that keeps the tail of the list
AddOrderKeepLast(list, data, t, max) ==
    LET l == <<NewOrder(data, t)>> \o list
    IN IF Len(l) > max THEN SubSeq(l, Len(l) - max + 1, Len(l)) ELSE l

AddOrderMax(list, data, t, max) ==
    LET l == <<NewOrder(data, t)>> \o list
    IN IF Len(l) > max THEN SubSeq(l, 1, max) ELSE l

AddOrder(list, data, t) == AddOrderMax(list, data, t, MAX_ORDERS)

\* deleteOrder: findIndex gives the first order with the id, splice removes it
DeleteIndex(list, id) ==
    IF \E i \in 1..Len(list) : list[i].id = id
    THEN CHOOSE i \in 1..Len(list) :
            list[i].id = id /\ \A j \in 1..(i - 1) : list[j].id # id
    ELSE 0

DeleteOrder(list, id) ==
    IF DeleteIndex(list, id) = 0 THEN list
    ELSE SubSeq(list, 1, DeleteIndex(list, id) - 1)
         \o SubSeq(list, DeleteIndex(list, id) + 1, Len(list))

\* cleanupOldOrders: keeps the orders whose date (midnight) is not before the cutoff,
\* the current instant moved back by `days` days: date * DayMs >= t - days * DayMs,
\* computed in days to stay within 32-bit integers
KeepOrder(o, t, days) ==
    IF t % DayMs = 0 THEN o.date + days >= Today(t) ELSE o.date + days > Today(t)

CleanupOldOrders(list, t, days) == SelectSeq(list, LAMBDA o : KeepOrder(o, t, days))

\* String(n) of one decimal digit, and pad: two digits with a leading zero
Digit(n) == SubSeq("0123456789", n + 1, n + 1)

Pad(n) == Digit((n \div 10) % 10) \o Digit(n % 10)

\* formatDateVN, DD/MM/YYYY, for the days of January 1970 (the days the clock reaches)
FormatDateVN(d) == Pad(d + 1) \o "/01/1970"

\* formatTime, HH:MM:SS, of the milliseconds since midnight
FormatTime(ms) ==
    Pad(ms \div HourMs) \o ":" \o Pad((ms \div 60000) % 60) \o ":" \o Pad((ms \div 1000) % 60)

\* str.split('/')
RECURSIVE SplitSlash(_)
SplitSlash(str) ==
    IF \E k \in 1..Len(str) : SubSeq(str, k, k) = "/"
    THEN LET k == CHOOSE i \in 1..Len(str) :
                     SubSeq(str, i, i) = "/" /\ \A j \in 1..(i - 1) : SubSeq(str, j, j) # "/"
         IN <<SubSeq(str, 1, k - 1)>> \o SplitSlash(SubSeq(str, k + 1, Len(str)))
    ELSE <<str>>

\* ToNumber of a string of decimal digits (0 for the empty string); any other
\* string gives NaN
IsDigits(str) == \A k \in 1..Len(str) : \E n \in 0..9 : SubSeq(str, k, k) = Digit(n)

RECURSIVE StrToNat(_)
StrToNat(str) ==
    IF str = "" THEN 0
    ELSE StrToNat(SubSeq(str, 1, Len(str) - 1)) * 10
         + (CHOOSE n \in 0..9 : SubSeq(str, Len(str), Len(str)) = Digit(n))

\* new Date(year, monthIndex, day) as a day number, for the months of 1970; a day
\* outside the month rolls over into the neighbouring months
DaysBeforeMonth == <<0, 31, 59, 90, 120, 151, 181, 212, 243, 273, 304, 334>>

DayNumber(year, monthIndex, day) ==
    CASE year = 1970 /\ monthIndex \in 0..11 -> DaysBeforeMonth[monthIndex + 1] + day - 1

\* parseVNDate: null for an empty string or one that has not three parts, else
\* the Date built from the parts, which is an Invalid Date when a part is no number
NullDate == [kind |-> "null", day |-> 0]

InvalidDate == [kind |-> "invalid", day |-> 0]

ParseVNDate(dateStr) ==
    IF dateStr = "" THEN NullDate
    ELSE LET parts == SplitSlash(dateStr)
         IN IF Len(parts) # 3 THEN NullDate
            ELSE IF \E k \in 1..3 : ~IsDigits(parts[k]) THEN InvalidDate
            ELSE [kind |-> "date",
                  day |-> DayNumber(StrToNat(parts[3]), StrToNat(parts[2]) - 1,
                                    StrToNat(parts[1]))]

\* filterByDate: the comparison of Dates is false when either is invalid; the end
\* is moved to the last millisecond of its day, the order dates are midnights
DateInRange(d, start, end) ==
    /\ d.kind = "date" /\ start.kind = "date" /\ end.kind = "date"
    /\ d.day >= start.day
    /\ d.day <= end.day

FilterByDate(list, startDate, endDate) ==
    IF ParseVNDate(startDate).kind = "null" \/ ParseVNDate(endDate).kind = "null"
    THEN list
    ELSE SelectSeq(list, LAMBDA o :
            DateInRange(ParseVNDate(FormatDateVN(o.date)),
                        ParseVNDate(startDate), ParseVNDate(endDate)))

\* toLowerCase on the letters that occur in OrderCodes and Queries
LowerChar(c) ==
    CASE c = "A" -> "a" [] c = "B" -> "b" [] c = "U" -> "u" [] OTHER -> c

RECURSIVE ToLowerCase(_)
ToLowerCase(str) ==
    IF str = "" THEN ""
    ELSE LowerChar(SubSeq(str, 1, 1)) \o ToLowerCase(SubSeq(str, 2, Len(str)))

\* trim: white space removed at both ends
RECURSIVE Trim(_)
Trim(str) ==
    IF str = "" THEN ""
    ELSE IF SubSeq(str, 1, 1) = " " THEN Trim(SubSeq(str, 2, Len(str)))
    ELSE IF SubSeq(str, Len(str), Len(str)) = " " THEN Trim(SubSeq(str, 1, Len(str) - 1))
    ELSE str

\* String.prototype.includes
Includes(str, term) ==
    \E i \in 1..(Len(str) - Len(term) + 1) : SubSeq(str, i, i + Len(term) - 1) = term

\* variant of search that compares the code as stored
SearchCaseSensitive(list, query) ==
    IF query = "" \/ Trim(query) = "" THEN list
    ELSE SelectSeq(list, LAMBDA o :
             \/ Includes(o.qrCode, Trim(ToLowerCase(query)))
             \/ Includes(FormatDateVN(o.date), Trim(ToLowerCase(query)))
             \/ Includes(FormatTime(o.time), Trim(ToLowerCase(query))))

\* search: the list itself for an empty query, else the orders whose code (lower
\* case), date or time contains the term
Search(list, query) ==
    IF query = "" \/ Trim(query) = "" THEN list
    ELSE SelectSeq(list, LAMBDA o :
             \/ Includes(ToLowerCase(o.qrCode), Trim(ToLowerCase(query)))
             \/ Includes(FormatDateVN(o.date), Trim(ToLowerCase(query)))
             \/ Includes(FormatTime(o.time), Trim(ToLowerCase(query))))

\* ------------------------------------------------------------------ QRLicense
LicenseInit ==
    [isPremium |-> FALSE, licenseKey |-> "", expiresAt |-> 0, daysRemaining |-> 0,
     todayUsed |-> 0, todayDate |-> Undef]

CanScanMore(lic) ==
    IF lic.isPremium THEN TRUE ELSE lic.todayUsed < FREE_DAILY_LIMIT

\* handlePremiumExpired: the storage it leaves and the callback it triggers
GraceMissing(st) == ~st.grace.present

GraceEnded(st, t) == st.grace.present /\ t >= st.grace.graceEndAt

ExpiredStore(st, expiredAt, t) ==
    IF GraceMissing(st) THEN ClearLicense(SetGracePeriod(st, expiredAt))
    ELSE IF GraceEnded(st, t)
         THEN ClearLicense(ClearGracePeriod(ClearOrders(st)))
         ELSE st

ExpiredEvent(st, t) ==
    IF GraceMissing(st) THEN <<"onRenewalWarning", 0>>
    ELSE IF GraceEnded(st, t) THEN <<"onGraceExpired", 0>>
    ELSE <<"onRenewalWarning", -1>>

\* checkPremiumStatus
LicenseActive(st, t) ==
    LoadLicense(st).present /\ t < LoadLicense(st).expiresAt

LicenseExpired(st, t) ==
    LoadLicense(st).present /\ ~(t < LoadLicense(st).expiresAt)

CheckedLicense(lic, st, t) ==
    LET l == LoadLicense(st)
    IN IF LicenseActive(st, t)
       THEN [lic EXCEPT !.isPremium = TRUE, !.licenseKey = l.licenseKey,
                        !.expiresAt = l.expiresAt,
                        !.daysRemaining = CeilDiv(l.expiresAt - t, DayMs)]
       ELSE [lic EXCEPT !.isPremium = FALSE, !.licenseKey = "", !.daysRemaining = 0]

CheckedStore(st, t) ==
    LET l == LoadLicense(st)
        s1 == LoadLicenseStore(st)
    IN IF LicenseActive(st, t) THEN ClearGracePeriod(s1)
       ELSE IF LicenseExpired(st, t) THEN ExpiredStore(s1, l.expiresAt, t)
       ELSE s1

CheckedEvents(st, t) ==
    LET l == LoadLicense(st)
        days == CeilDiv(l.expiresAt - t, DayMs)
    IN IF LicenseActive(st, t)
       THEN IF days <= RENEWAL_WARNING_DAYS THEN <<<<"onRenewalWarning", days>>>> ELSE <<>>
       ELSE IF LicenseExpired(st, t) THEN <<ExpiredEvent(LoadLicenseStore(st), t)>>
       ELSE <<>>

\* checkDailyLimit
DailyIsToday(st, t) == GetDailyUsage(st, t).date = Today(t)

\* variant of checkDailyLimit that adds the stored count to todayUsed
DailyLicenseAdding(lic, st, t) ==
    [lic EXCEPT !.todayUsed = @ + GetDailyUsage(st, t).used, !.todayDate = Today(t)]

DailyLicense(lic, st, t) ==
    IF DailyIsToday(st, t)
    THEN [lic EXCEPT !.todayUsed = GetDailyUsage(st, t).used, !.todayDate = Today(t)]
    ELSE [lic EXCEPT !.todayUsed = 0, !.todayDate = Today(t)]

DailyStore(lic, st, t) ==
    IF DailyIsToday(st, t) THEN st
    ELSE ResetDailyUsage(IF ~lic.isPremium THEN ClearOrders(st) ELSE st, t)

\* incrementUsage
IncrementedLicense(lic, st, t) ==
    [lic EXCEPT !.todayUsed = IncrementDailyUsage(st, t).daily.used]

LimitReached(lic) == ~lic.isPremium /\ lic.todayUsed >= FREE_DAILY_LIMIT

\* toUpperCase on the letters that occur in ApiKeys
UpperChar(c) ==
    CASE c = "a" -> "A" [] c = "b" -> "B" [] c = "k" -> "K" [] OTHER -> c

RECURSIVE ToUpperCase(_)
ToUpperCase(str) ==
    IF str = "" THEN ""
    ELSE UpperChar(SubSeq(str, 1, 1)) \o ToUpperCase(SubSeq(str, 2, Len(str)))

\* activateAPI: the key test, the test for a stored unexpired record of the same key,
\* the state that test leaves, and the key sent with the request
ApiKeyWellFormed(key) == key # "" /\ Len(key) >= ApiKeyMinLength

\* variant of the stored-record test that compares the keys as they are written
ActiveLocallyExact(st, key, t) ==
    /\ LoadLicense(st).present
    /\ LoadLicense(st).licenseKey # ""
    /\ LoadLicense(st).licenseKey = key
    /\ t < LoadLicense(st).expiresAt

ActiveLocally(st, key, t) ==
    /\ LoadLicense(st).present
    /\ LoadLicense(st).licenseKey # ""
    /\ ToUpperCase(LoadLicense(st).licenseKey) = ToUpperCase(key)
    /\ t < LoadLicense(st).expiresAt

LocallyActiveLicense(lic, st, t) ==
    [lic EXCEPT !.isPremium = TRUE, !.licenseKey = LoadLicense(st).licenseKey,
                !.expiresAt = LoadLicense(st).expiresAt,
                !.daysRemaining = CeilDiv(LoadLicense(st).expiresAt - t, DayMs)]

RequestKey(key) == ToUpperCase(Trim(key))

\* the answer of a successful activation: the key, an expiry one jump ahead
ExpiryGranted(t) == (t \div JumpMs + 1) * JumpMs

GrantedData(key, t) == [licenseKey |-> key, expiresAt |-> ExpiryGranted(t)]

\* variant of the rejection that reports every failure as an invalid license
RejectionAlwaysInvalid(resp) == "ERR_INVALID_LICENSE"

\* the error the promise is rejected with
RejectionOf(resp) ==
    CASE resp = "mismatch" -> "ERR_DEVICE_MISMATCH"
      [] resp = "rejected" -> "ERR_INVALID_LICENSE"
      [] resp = "transport" -> "ERR_CONNECTION"

\* activateLocal
\* variant of activateLocal that accepts every key
ActivateValidAlways(ld) == TRUE

ActivateValid(ld) == ld.licenseKey # ""

ActivatedLicense(lic, ld, t) ==
    [lic EXCEPT !.isPremium = TRUE, !.licenseKey = ld.licenseKey,
                !.expiresAt = ld.expiresAt,
                !.daysRemaining = CeilDiv(ld.expiresAt - t, DayMs)]

ActivatedStore(st, ld) ==
    ClearGracePeriod(SaveLicense(st, LicenseRecord(ld.licenseKey, ld.expiresAt)))

\* ------------------------------------------------------------------ QRRecorder
\* {} as recordingMetadata: no qrCode, no productCount
NoMetadata == [qrCode |-> None, productCount |-> Undef]

RecorderInit ==
    [stream |-> FALSE, isCameraOn |-> FALSE, recorder |-> FALSE, chunks |-> 0,
     canvasStream |-> FALSE, isRecording |-> FALSE, recordingStartTime |-> 0,
     recordingDuration |-> 0, recordingMetadata |-> NoMetadata,
     folderHandle |-> FALSE, postBuffer |-> DEFAULT_POST_BUFFER]

\* Math.round(ms / 1000) for ms >= 0
RoundSeconds(ms) == (ms + 500) \div 1000

StartRecordingOk(r) == r.isCameraOn /\ ~r.isRecording

StartRecordingState(r, t) ==
    IF StartRecordingOk(r)
    THEN [r EXCEPT !.canvasStream = TRUE, !.recorder = TRUE, !.chunks = 0,
                   !.isRecording = TRUE, !.recordingStartTime = t]
    ELSE r

StopRecordingOk(r) == r.isRecording /\ r.recorder

StopRecordingState(r, meta, t) ==
    IF StopRecordingOk(r)
    THEN [r EXCEPT !.recordingDuration = RoundSeconds(t - r.recordingStartTime),
                   !.recordingMetadata = meta,
                   !.isRecording = FALSE]
    ELSE r

StopCameraState(r) ==
    [r EXCEPT !.stream = FALSE, !.canvasStream = FALSE, !.isCameraOn = FALSE]

\* handleRecordingStop, up to the await: the code it names the file and the events with
SavedQRCode(r) ==
    IF r.recordingMetadata.qrCode = None THEN "NoQR" ELSE r.recordingMetadata.qrCode

\* handleRecordingStop, after the save: chunks and metadata are cleared, then the
\* onVideoSaved payload is built from the recorder state
ClearedAfterSave(r) == [r EXCEPT !.chunks = 0, !.recordingMetadata = NoMetadata]

VideoSavedData(r, qrCode) ==
    [qrCode |-> qrCode,
     duration |-> ClearedAfterSave(r).recordingDuration,
     productCount |-> OrZero(ClearedAfterSave(r).recordingMetadata.productCount)]

\* ------------------------------------------------------------------ QRApp
AppInitState == [initialized |-> FALSE, currentQR |-> None, scanLoopId |-> FALSE]

\* handleQRDetected: starts a recording if none is in progress
DetectionStartsRecording(r) == ~r.isRecording

\* variant of handleQRDetected that starts a recording on every detection
DetectedRecorderRestarting(r, t) ==
    [r EXCEPT !.canvasStream = TRUE, !.recorder = TRUE, !.chunks = 0,
              !.isRecording = TRUE, !.recordingStartTime = t]

DetectedRecorder(r, t) ==
    IF DetectionStartsRecording(r) THEN StartRecordingState(r, t) ELSE r

\* variant of the post-buffer callback that does not ask the scanner
TimerStopsUnasked(r, s) == r.isRecording

\* the post-buffer callback: stops only a recording in progress with the scanner unblocked
TimerStops(r, s) == r.isRecording /\ ~s.scanBlocked

\* stopRecording (QRApp): the metadata handed to the recorder
StopMetadata(a, s) ==
    [qrCode |-> a.currentQR, productCount |-> Len(s.detectedProducts)]

\* the onVideoSaved handler: ORDERS.add, then incrementUsage for free users
SavedOrders(list, data, t) == AddOrder(list, data, t)

\* variant of the onVideoSaved handler that never counts the usage
SavedStoreOrdersOnly(st, lic, list, data, t) == SaveOrders(st, SavedOrders(list, data, t))

SavedStore(st, lic, list, data, t) ==
    LET s1 == SaveOrders(st, SavedOrders(list, data, t))
    IN IF ~lic.isPremium THEN IncrementDailyUsage(s1, t) ELSE s1

SavedLicense(lic, st, t) ==
    IF ~lic.isPremium THEN IncrementedLicense(lic, st, t) ELSE lic

SavedEvents(lic, st, t, data) ==
    <<Ev("onRecordingStop", 0), Ev("onVideoSaved", data.productCount),
      Ev("onOrderAdded", data.productCount)>>
    \o (IF ~lic.isPremium /\ LimitReached(IncrementedLicense(lic, st, t))
        THEN <<Ev("onLimitReached", 0)>> ELSE <<>>)

\* processQR with its onQRDetected handler (handleQRDetected): the callbacks triggered
DetectEvents(s, r, qr, t) ==
    IF ProcessQRIgnored(s, qr) THEN <<>>
    ELSE <<Ev("beep", 0),
           Ev("onQRDetected", Len(ProcessQRState(s, qr, t).detectedProducts))>>
         \o (IF DetectionStartsRecording(r) /\ StartRecordingOk(r)
             THEN <<Ev("onRecordingStart", 0)>> ELSE <<>>)
         \o <<Ev("onScanBlocked", SCAN_LOCK_MS)>>

\* ------------------------------------------------------------------ state
Op(name, arg) == [name |-> name, arg |-> arg]

StoreInit(daily) ==
    [license |-> NoLicense, cookie |-> NoLicense, orders |-> <<>>,
     daily |-> daily, grace |-> NoGrace]

\* A first visit, or a visit on a day on which FREE_DAILY_LIMIT - 1 recordings were
\* already saved and the history was cleared by the user.
InitialDaily ==
    {NoDaily, [present |-> TRUE, date |-> 0, used |-> FREE_DAILY_LIMIT - 1]}

\* License data a host frame may push: a key or none, expiring one jump from the start
LicenseInputs ==
    {[licenseKey |-> k, expiresAt |-> JumpMs] : k \in {"", "K1"}}

InitFrom(stores, left) ==
    /\ now = 0
    /\ app = AppInitState
    /\ stopTimers = {}
    /\ scanner = ScannerInit
    /\ recorder = RecorderInit
    /\ pendingStops = 0
    /\ saving = <<>>
    /\ camStart = "idle"
    /\ license = LicenseInit
    /\ store \in stores
    /\ orders = <<>>
    /\ recordingsLeft = left
    /\ activation = <<>>
    /\ op = Op("load", None)
    /\ emitted = <<>>

InitWith(dailies, left) == InitFrom({StoreInit(d) : d \in dailies}, left)

Init == InitWith(InitialDaily, MaxRecordings)

VisitsInit == InitWith(InitialDaily, MaxVisitRecordings)

\* A visit that finds no order history, or one order saved at the start of day 0
InitialHistory ==
    {<<>>, <<NewOrder([qrCode |-> "A", duration |-> 0, productCount |-> 0], 0)>>}

\* The session machine with room for two recordings, no usage stored
TimersInit == InitWith({NoDaily}, MaxVisitRecordings)

\* License data a host frame may push with a key that holds a space and a percent sign
ActivationInputs ==
    {[licenseKey |-> k, expiresAt |-> JumpMs] : k \in {"", "K %1"}}

ActivationInit == InitWith({NoDaily}, 0)

\* The order store starts empty
OrdersInit == InitWith({NoDaily}, 0)

DailyInit ==
    InitFrom({[StoreInit(d) EXCEPT !.orders = h] : d \in InitialDaily, h \in InitialHistory},
             MaxVisitRecordings)

\* the callbacks of QRLicense that setupCallbacks gives a handler
LicenseEvents == {"onStatusChange", "onRenewalWarning", "onLimitReached", "onGraceExpired"}

\* QRApp.init calls setupCallbacks after LICENSE.init and sets initialized in the
\* same run: the license callbacks have their handlers once init has run
LicenseHandlersRegistered(a) == a.initialized

\* ------------------------------------------------------------------ actions
\* QRApp.init: LICENSE.init (checkPremiumStatus, checkDailyLimit) runs before
\* ORDERS.init (loadOrders, cleanupOldOrders) and before setupCallbacks.
AppInit ==
    /\ ~app.initialized
    /\ LET st1 == CheckedStore(store, now)
           lic1 == CheckedLicense(license, store, now)
           st2 == DailyStore(lic1, st1, now)
           lic2 == DailyLicense(lic1, st1, now)
           kept == CleanupOldOrders(st2.orders, now, AUTO_DELETE_DAYS)
       IN /\ license' = lic2
          /\ orders' = kept
          /\ store' = IF Len(kept) < Len(st2.orders) THEN SaveOrders(st2, kept) ELSE st2
          /\ emitted' = CheckedEvents(store, now)
    /\ app' = [app EXCEPT !.initialized = TRUE]
    /\ op' = Op("init", None)
    /\ UNCHANGED activation
    /\ UNCHANGED <<recordingsLeft, now, stopTimers, scanner, recorder, pendingStops, saving, camStart>>

\* The page is reloaded, with the camera off and no save under way: every module is
\* constructed again, storage stays.
Reload ==
    /\ app.initialized
    /\ ~recorder.isCameraOn /\ camStart = "idle"
    /\ pendingStops = 0 /\ saving = <<>>
    /\ app' = AppInitState
    /\ stopTimers' = {}
    /\ scanner' = ScannerInit
    /\ recorder' = RecorderInit
    /\ pendingStops' = 0
    /\ saving' = <<>>
    /\ camStart' = "idle"
    /\ license' = LicenseInit
    /\ orders' = <<>>
    /\ op' = Op("reload", None)
    /\ activation' = <<>>
    /\ emitted' = <<>>
    /\ UNCHANGED <<recordingsLeft, now, store>>

\* btnCamera with the camera off: startCamera up to its first await
StartCameraClick ==
    /\ app.initialized
    /\ ~recorder.isCameraOn
    /\ camStart = "idle"
    /\ IF ~license.isPremium /\ ~CanScanMore(license)
       THEN /\ emitted' = <<Ev("showLimitModal", 0)>>
            /\ camStart' = camStart
       ELSE /\ emitted' = <<>>
            /\ camStart' = "enumerate"
    /\ op' = Op("startCamera", None)
    /\ UNCHANGED activation
    /\ UNCHANGED <<recordingsLeft, now, app, stopTimers, scanner, recorder, pendingStops, saving,
                   license, store, orders>>

\* RECORDER.startCamera up to await getUserMedia: an existing stream is stopped first
\* (stopCamera triggers onCameraStop, whose handler calls stopScanLoop)
BeginStartCamera ==
    /\ recorder' = IF recorder.stream THEN StopCameraState(recorder) ELSE recorder
    /\ app' = IF recorder.stream THEN [app EXCEPT !.scanLoopId = FALSE] ELSE app
    /\ emitted' = IF recorder.stream THEN <<Ev("onCameraStop", 0)>> ELSE <<>>
    /\ camStart' = "gum"

GetCamerasDone ==
    /\ camStart = "enumerate"
    /\ BeginStartCamera
    /\ op' = Op("getCamerasDone", None)
    /\ UNCHANGED activation
    /\ UNCHANGED <<recordingsLeft, now, stopTimers, scanner, pendingStops, saving, license, store, orders>>

\* the cameraSelect change handler
CameraSelectChange ==
    /\ app.initialized
    /\ recorder.isCameraOn
    /\ camStart = "idle"
    /\ BeginStartCamera
    /\ op' = Op("cameraSelect", None)
    /\ UNCHANGED activation
    /\ UNCHANGED <<recordingsLeft, now, stopTimers, scanner, pendingStops, saving, license, store, orders>>

\* getUserMedia settles
GetUserMedia(ok) ==
    /\ camStart = "gum"
    /\ camStart' = "idle"
    /\ IF ok
       THEN /\ recorder' = [recorder EXCEPT !.stream = TRUE, !.isCameraOn = TRUE]
            /\ emitted' = <<Ev("onCameraStart", 0)>>
       ELSE /\ recorder' = recorder
            /\ emitted' = <<Ev("onError", 0)>>
    /\ op' = Op("getUserMedia", IF ok THEN "ok" ELSE "error")
    /\ UNCHANGED activation
    /\ UNCHANGED <<recordingsLeft, now, app, stopTimers, scanner, pendingStops, saving, license, store,
                   orders>>

\* stopRecording (QRApp) applied to the recorder, the scanner and the app state
CanQueueStop == pendingStops < MaxPendingStops

\* btnCamera with the camera on: stopAll
StopAllClick ==
    /\ app.initialized
    /\ recorder.isCameraOn
    /\ recorder.isRecording => CanQueueStop
    /\ recorder' =
         StopCameraState(
           IF recorder.isRecording
           THEN StopRecordingState(recorder, StopMetadata(app, scanner), now)
           ELSE recorder)
    /\ pendingStops' =
         IF recorder.isRecording /\ StopRecordingOk(recorder)
         THEN pendingStops + 1 ELSE pendingStops
    /\ app' = [app EXCEPT !.currentQR = IF recorder.isRecording THEN None ELSE @,
                          !.scanLoopId = FALSE]
    /\ scanner' = ResetSessionState(scanner)
    /\ emitted' = <<Ev("onCameraStop", 0)>>
    /\ op' = Op("stopAll", None)
    /\ UNCHANGED activation
    /\ UNCHANGED <<recordingsLeft, now, stopTimers, saving, camStart, license, store, orders>>

\* processQR(qr) with everything its callbacks do, from app state a and scanner state s
Detect(a, s, qr) ==
    /\ scanner' = ProcessQRState(s, qr, now)
    /\ IF ProcessQRIgnored(s, qr)
       THEN /\ app' = a
            /\ UNCHANGED <<recorder, stopTimers, recordingsLeft>>
       ELSE /\ app' = [a EXCEPT !.currentQR = qr]
            /\ recorder' = DetectedRecorder(recorder, now)
            /\ recordingsLeft' =
                 IF DetectionStartsRecording(recorder) /\ StartRecordingOk(recorder)
                 THEN recordingsLeft - 1 ELSE recordingsLeft
            /\ stopTimers' = stopTimers \cup {now + recorder.postBuffer}

\* A detection that would start a recording needs one left
CanRecordMore == recorder.isRecording \/ recordingsLeft > 0

\* SCANNER.processQR called with a code decoded outside scanFrame's own lock check
\* (the asynchronous scanWithBarcodeDetector path), while the camera is on
ProcessQRCall(qr) ==
    /\ app.initialized
    /\ recorder.isCameraOn
    /\ Len(scanner.detectedProducts) < MaxProducts
    /\ CanRecordMore
    /\ Detect(app, scanner, qr)
    /\ emitted' = DetectEvents(scanner, recorder, qr, now)
    /\ op' = Op("processQR", qr)
    /\ UNCHANGED activation
    /\ UNCHANGED <<now, pendingStops, saving, camStart, license, store, orders>>

\* One pass of the scan loop body with the camera showing qr (None: nothing decodable)
LoopBody(qr) ==
    IF ~recorder.isCameraOn
    THEN /\ app' = [app EXCEPT !.scanLoopId = FALSE]
         /\ emitted' = <<>>
         /\ UNCHANGED <<scanner, recorder, stopTimers, recordingsLeft>>
    ELSE LET s1 == ScanFrameState(scanner, now)
             unb == IF ScanFrameUnblocks(scanner, now)
                    THEN <<Ev("onScanUnblocked", 0)>> ELSE <<>>
         IN IF ScanFrameDecodes(scanner, now) /\ qr # None
            THEN /\ Detect([app EXCEPT !.scanLoopId = TRUE], s1, qr)
                 /\ emitted' = unb \o DetectEvents(s1, recorder, qr, now)
            ELSE /\ scanner' = s1
                 /\ app' = [app EXCEPT !.scanLoopId = TRUE]
                 /\ emitted' = unb
                 /\ UNCHANGED <<recorder, stopTimers, recordingsLeft>>

\* startScanLoop: runs the loop body once and leaves the next frame requested
StartScanLoop(qr) ==
    /\ app.initialized
    /\ ~app.scanLoopId
    /\ Len(scanner.detectedProducts) < MaxProducts
    /\ CanRecordMore
    /\ LoopBody(qr)
    /\ op' = Op("startScanLoop", qr)
    /\ UNCHANGED activation
    /\ UNCHANGED <<now, pendingStops, saving, camStart, license, store, orders>>

\* the requestAnimationFrame callback of the scan loop
Loop(qr) ==
    /\ app.scanLoopId
    /\ Len(scanner.detectedProducts) < MaxProducts
    /\ CanRecordMore
    /\ LoopBody(qr)
    /\ op' = Op("loop", qr)
    /\ UNCHANGED activation
    /\ UNCHANGED <<now, pendingStops, saving, camStart, license, store, orders>>

\* a post-buffer setTimeout callback runs
TimerFire(due) ==
    /\ due \in stopTimers
    /\ due <= now
    /\ TimerStops(recorder, scanner) => CanQueueStop
    /\ stopTimers' = stopTimers \ {due}
    /\ IF TimerStops(recorder, scanner)
       THEN /\ recorder' = StopRecordingState(recorder, StopMetadata(app, scanner), now)
            /\ pendingStops' =
                 IF StopRecordingOk(recorder) THEN pendingStops + 1 ELSE pendingStops
            /\ scanner' = ResetSessionState(scanner)
            /\ app' = [app EXCEPT !.currentQR = None]
       ELSE UNCHANGED <<recorder, pendingStops, scanner, app>>
    /\ emitted' = <<>>
    /\ op' = Op("timer", None)
    /\ UNCHANGED activation
    /\ UNCHANGED <<recordingsLeft, now, saving, camStart, license, store, orders>>

\* ondataavailable of the running MediaRecorder, with data
DataAvailable ==
    /\ recorder.isRecording
    /\ recorder.chunks < MaxChunks
    /\ recorder' = [recorder EXCEPT !.chunks = @ + 1]
    /\ emitted' = <<>>
    /\ op' = Op("dataavailable", None)
    /\ UNCHANGED activation
    /\ UNCHANGED <<recordingsLeft, now, app, stopTimers, scanner, pendingStops, saving, camStart,
                   license, store, orders>>

\* the tail of handleRecordingStop: clear, then onRecordingStop and onVideoSaved,
\* whose handler adds the order and counts the usage
FinishSave(r, qrCode) ==
    LET data == VideoSavedData(r, qrCode)
    IN /\ recorder' = ClearedAfterSave(r)
       /\ orders' = SavedOrders(orders, data, now)
       /\ store' = SavedStore(store, license, orders, data, now)
       /\ license' = SavedLicense(license, store, now)
       /\ emitted' = SavedEvents(license, store, now, data)

\* A stopped MediaRecorder delivers its last data (hasData: of size > 0) and its stop
\* event: handleRecordingStop up to the await, or to its end when no folder is selected
RecorderStopEvent(hasData) ==
    /\ pendingStops > 0
    /\ pendingStops' = pendingStops - 1
    /\ LET r1 == IF hasData THEN [recorder EXCEPT !.chunks = @ + 1] ELSE recorder
       IN IF r1.chunks = 0
          THEN /\ recorder' = r1
               /\ emitted' = <<>>
               /\ UNCHANGED <<saving, orders, store, license>>
          ELSE IF r1.folderHandle
               THEN /\ Len(saving) < MaxPendingStops
                    /\ recorder' = r1
                    /\ saving' = Append(saving, SavedQRCode(r1))
                    /\ emitted' = <<>>
                    /\ UNCHANGED <<orders, store, license>>
               ELSE /\ FinishSave(r1, SavedQRCode(r1))
                    /\ UNCHANGED saving
    /\ op' = Op("recorderStop", IF hasData THEN "data" ELSE "empty")
    /\ UNCHANGED activation
    /\ UNCHANGED <<recordingsLeft, now, app, stopTimers, scanner, camStart>>

\* await saveToFolder settles (written, or failed and downloaded instead)
SaveToFolderDone ==
    /\ saving # <<>>
    /\ saving' = Tail(saving)
    /\ FinishSave(recorder, Head(saving))
    /\ op' = Op("saveDone", None)
    /\ UNCHANGED activation
    /\ UNCHANGED <<recordingsLeft, now, app, stopTimers, scanner, pendingStops, camStart>>

\* btnFolder: a folder is picked, before the camera is switched on
SelectFolder ==
    /\ app.initialized
    /\ ~recorder.isCameraOn /\ camStart = "idle"
    /\ ~recorder.folderHandle
    /\ recorder' = [recorder EXCEPT !.folderHandle = TRUE]
    /\ emitted' = <<>>
    /\ op' = Op("selectFolder", None)
    /\ UNCHANGED activation
    /\ UNCHANGED <<recordingsLeft, now, app, stopTimers, scanner, pendingStops, saving, camStart,
                   license, store, orders>>

\* handleParentMessage with license data: activateLocal
ParentMessage(ld) ==
    /\ app.initialized
    /\ IF ActivateValid(ld)
       THEN /\ store' = ActivatedStore(store, ld)
            /\ license' = ActivatedLicense(license, ld, now)
            /\ emitted' = <<Ev("onStatusChange", 0)>>
       ELSE /\ emitted' = <<>>
            /\ UNCHANGED <<store, license>>
    /\ op' = Op("activateLocal", ld.licenseKey)
    /\ UNCHANGED activation
    /\ UNCHANGED <<recordingsLeft, now, app, stopTimers, scanner, recorder, pendingStops, saving,
                   camStart, orders>>

\* the postBufferSelect change handler: RECORDER.setPostBuffer(parseInt(value))
PostBufferChange(ms) ==
    /\ app.initialized
    /\ ms # recorder.postBuffer
    /\ recorder' = [recorder EXCEPT !.postBuffer = IF ms > 0 THEN ms ELSE 0]
    /\ emitted' = <<>>
    /\ op' = Op("postBuffer", None)
    /\ UNCHANGED activation
    /\ UNCHANGED <<recordingsLeft, now, app, stopTimers, scanner, pendingStops, saving, camStart,
                   license, store, orders>>

\* activateAPI(key) up to the fetch call
ActivateAPICall(key) ==
    /\ app.initialized
    /\ Len(activation) < MaxPendingActivations
    /\ IF ~ApiKeyWellFormed(key)
       THEN /\ emitted' = <<Ev("reject", "ERR_INVALID_LICENSE")>>
            /\ UNCHANGED <<store, license, activation>>
       ELSE /\ store' = LoadLicenseStore(store)
            /\ IF ActiveLocally(store, key, now)
               THEN /\ license' = LocallyActiveLicense(license, store, now)
                    /\ emitted' = <<Ev("resolve", "local")>>
                    /\ UNCHANGED activation
               ELSE /\ activation' = Append(activation, RequestKey(key))
                    /\ emitted' = <<Ev("fetch", RequestKey(key))>>
                    /\ UNCHANGED license
    /\ op' = Op("activateAPI", key)
    /\ UNCHANGED <<recordingsLeft, now, app, stopTimers, scanner, recorder, pendingStops, saving,
                   camStart, orders>>

\* the fetch of activateAPI settles: success, errorCode DEVICE_MISMATCH, another
\* rejection, or no usable answer
ActivationResponse(resp) ==
    /\ activation # <<>>
    /\ activation' = Tail(activation)
    /\ IF resp = "success"
       THEN /\ store' = ActivatedStore(store, GrantedData(Head(activation), now))
            /\ license' = ActivatedLicense(license, GrantedData(Head(activation), now), now)
            /\ emitted' = <<Ev("resolve", "remote")>>
       ELSE /\ emitted' = <<Ev("reject", RejectionOf(resp))>>
            /\ UNCHANGED <<store, license>>
    /\ op' = Op("activationResponse", resp)
    /\ UNCHANGED <<recordingsLeft, now, app, stopTimers, scanner, recorder, pendingStops, saving,
                   camStart, orders>>

\* the license entry of localStorage is removed outside the application; the cookie stays
PrimaryEmptied ==
    /\ store.license.present
    /\ store' = [store EXCEPT !.license = NoLicense]
    /\ emitted' = <<>>
    /\ op' = Op("primaryEmptied", None)
    /\ UNCHANGED <<recordingsLeft, now, app, stopTimers, scanner, recorder, pendingStops, saving,
                   camStart, license, orders, activation>>

\* orderData handed to ORDERS.add
OrderInputs ==
    {[qrCode |-> c, duration |-> 0, productCount |-> 0] : c \in OrderCodes}

\* orderData and the date strings handed to ORDERS.filterByDate: two days, a day
\* that rolls over into February, no date, a date in another notation, and three
\* parts that are no numbers
FilterInputs == {[qrCode |-> "A", duration |-> 0, productCount |-> 0]}

\* days handed to ORDERS.cleanup: none given, and one day
CleanupDays == {0, 1}

FilterDates ==
    {"01/01/1970", "02/01/1970", "32/01/1970", "", "1970-01-02", "aa/bb/cccc"}

\* ORDERS.add(orderData) with the cap OrdersCap; the order returned is the one
\* handed to onOrderAdded
OrdersAddCall(data) ==
    /\ app.initialized
    /\ orders' = AddOrderMax(orders, data, now, OrdersCap)
    /\ store' = SaveOrdersMax(store, AddOrderMax(orders, data, now, OrdersCap), OrdersCap)
    /\ emitted' = <<Ev("onOrderAdded", NewOrder(data, now))>>
    /\ op' = Op("add", data.qrCode)
    /\ UNCHANGED activation
    /\ UNCHANGED <<recordingsLeft, now, app, stopTimers, scanner, recorder, pendingStops, saving,
                   camStart, license>>

\* ORDERS.delete(orderId)
OrdersDeleteCall(id) ==
    /\ app.initialized
    /\ orders' = DeleteOrder(orders, id)
    /\ IF DeleteIndex(orders, id) # 0
       THEN /\ store' = SaveOrdersMax(store, DeleteOrder(orders, id), OrdersCap)
            /\ emitted' = <<Ev("onOrderDeleted", orders[DeleteIndex(orders, id)])>>
       ELSE /\ store' = store
            /\ emitted' = <<>>
    /\ op' = Op("delete", id)
    /\ UNCHANGED activation
    /\ UNCHANGED <<recordingsLeft, now, app, stopTimers, scanner, recorder, pendingStops, saving,
                   camStart, license>>

\* ORDERS.clear()
OrdersClearCall ==
    /\ app.initialized
    /\ orders' = <<>>
    /\ store' = ClearOrders(store)
    /\ emitted' = <<Ev("onOrdersCleared", 0)>>
    /\ op' = Op("clear", None)
    /\ UNCHANGED activation
    /\ UNCHANGED <<recordingsLeft, now, app, stopTimers, scanner, recorder, pendingStops, saving,
                   camStart, license>>

\* ORDERS.cleanup(days): days || AUTO_DELETE_DAYS, the list is saved when an order
\* was dropped; the number of dropped orders is returned
OrdersCleanupCall(days) ==
    /\ app.initialized
    /\ LET kept == CleanupOldOrders(orders, now, IF days = 0 THEN AUTO_DELETE_DAYS ELSE days)
       IN /\ orders' = kept
          /\ store' = IF Len(kept) < Len(orders)
                      THEN SaveOrdersMax(store, kept, OrdersCap) ELSE store
    /\ emitted' = <<Ev("cleanup", Len(orders) - Len(orders'))>>
    /\ op' = Op("cleanup", days)
    /\ UNCHANGED activation
    /\ UNCHANGED <<recordingsLeft, now, app, stopTimers, scanner, recorder, pendingStops, saving,
                   camStart, license>>

\* ORDERS.filterByDate(startDate, endDate); the dates and the list returned are recorded
OrdersFilterCall(startDate, endDate) ==
    /\ app.initialized
    /\ emitted' = <<Ev("filterByDate",
                       [startDate |-> startDate, endDate |-> endDate,
                        result |-> FilterByDate(orders, startDate, endDate)])>>
    /\ op' = Op("filterByDate", None)
    /\ UNCHANGED activation
    /\ UNCHANGED <<recordingsLeft, now, app, stopTimers, scanner, recorder, pendingStops, saving,
                   camStart, license, store, orders>>

\* ORDERS.search(query); the list returned is recorded as the result
OrdersSearchCall(query) ==
    /\ app.initialized
    /\ emitted' = <<Ev("search", Search(orders, query))>>
    /\ op' = Op("search", query)
    /\ UNCHANGED activation
    /\ UNCHANGED <<recordingsLeft, now, app, stopTimers, scanner, recorder, pendingStops, saving,
                   camStart, license, store, orders>>

\* QRLicense.checkDaily called by the host page; the argument recorded is the
\* handler that ran before it
CheckDailyCall ==
    /\ app.initialized
    /\ license' = DailyLicense(license, store, now)
    /\ store' = DailyStore(license, store, now)
    /\ emitted' = <<>>
    /\ op' = Op("checkDaily", op.name)
    /\ UNCHANGED activation
    /\ UNCHANGED <<recordingsLeft, now, app, stopTimers, scanner, recorder, pendingStops, saving,
                   camStart, orders>>

\* QRLicense.incrementUsage called for a recording saved outside the recorder
IncrementUsageCall ==
    /\ app.initialized
    /\ recordingsLeft > 0
    /\ recordingsLeft' = recordingsLeft - 1
    /\ license' = IncrementedLicense(license, store, now)
    /\ store' = IncrementDailyUsage(store, now)
    /\ emitted' = IF LimitReached(IncrementedLicense(license, store, now))
                  THEN <<Ev("onLimitReached", 0)>> ELSE <<>>
    /\ op' = Op("incrementUsage", None)
    /\ UNCHANGED activation
    /\ UNCHANGED <<now, app, stopTimers, scanner, recorder, pendingStops, saving, camStart,
                   orders>>

\* Time passes.  A setTimeout callback that is due runs before the clock moves on.
NoTimerDue == \A d \in stopTimers : d > now

Tick ==
    /\ NoTimerDue
    /\ (now % JumpMs) + TickMs <= MaxSessionMs
    /\ now' = now + TickMs
    /\ op' = Op("tick", None)
    /\ UNCHANGED activation
    /\ emitted' = <<>>
    /\ UNCHANGED <<recordingsLeft, app, stopTimers, scanner, recorder, pendingStops, saving, camStart,
                   license, store, orders>>

\* Hours pass, once the pending asynchronous completions have settled
Jump ==
    /\ NoTimerDue
    /\ pendingStops = 0 /\ saving = <<>> /\ camStart = "idle" /\ activation = <<>>
    /\ now \div JumpMs < MaxJumps
    /\ now' = (now \div JumpMs + 1) * JumpMs
    /\ op' = Op("jump", None)
    /\ UNCHANGED activation
    /\ emitted' = <<>>
    /\ UNCHANGED <<recordingsLeft, app, stopTimers, scanner, recorder, pendingStops, saving, camStart,
                   license, store, orders>>

\* The session machine within one visit of one day
Next ==
    \/ AppInit
    \/ Reload
    \/ StartCameraClick
    \/ GetCamerasDone
    \/ CameraSelectChange
    \/ \E ok \in BOOLEAN : GetUserMedia(ok)
    \/ StopAllClick
    \/ \E qr \in Codes : ProcessQRCall(qr)
    \/ \E qr \in Codes \cup {None} : StartScanLoop(qr)
    \/ \E qr \in Codes \cup {None} : Loop(qr)
    \/ \E due \in stopTimers : TimerFire(due)
    \/ DataAvailable
    \/ \E hasData \in BOOLEAN : RecorderStopEvent(hasData)
    \/ SaveToFolderDone
    \/ SelectFolder
    \/ Tick

Spec == Init /\ [][Next]_vars

\* Visits over several days: reloads, license pushes and recordings ended by stopAll
VisitsNext ==
    \/ AppInit
    \/ Reload
    \/ \E ld \in LicenseInputs : ParentMessage(ld)
    \/ StartCameraClick
    \/ GetCamerasDone
    \/ \E ok \in {TRUE} : GetUserMedia(ok)
    \/ StopAllClick
    \/ \E qr \in VisitCodes : ProcessQRCall(qr)
    \/ \E due \in stopTimers : TimerFire(due)
    \/ \E hasData \in {TRUE} : RecorderStopEvent(hasData)
    \/ Jump

VisitsSpec == VisitsInit /\ [][VisitsNext]_vars

\* The session machine with a selectable post buffer, the frame loop sampling
\* frames without a decodable code, and recordings ended by a timer or by stopAll
TimersNext ==
    \/ AppInit
    \/ \E ms \in PostBufferChoices : PostBufferChange(ms)
    \/ StartCameraClick
    \/ GetCamerasDone
    \/ \E ok \in {TRUE} : GetUserMedia(ok)
    \/ StopAllClick
    \/ \E qr \in VisitCodes : ProcessQRCall(qr)
    \/ \E qr \in {None} : StartScanLoop(qr)
    \/ \E qr \in {None} : Loop(qr)
    \/ \E due \in stopTimers : TimerFire(due)
    \/ \E hasData \in {TRUE} : RecorderStopEvent(hasData)
    \/ Tick

TimersSpec == TimersInit /\ [][TimersNext]_vars

\* Recordings saved to a selected folder: a camera restart and a second recording
\* while the write of the first is awaited
SavesNext ==
    \/ AppInit
    \/ SelectFolder
    \/ StartCameraClick
    \/ GetCamerasDone
    \/ \E ok \in {TRUE} : GetUserMedia(ok)
    \/ StopAllClick
    \/ \E qr \in VisitCodes : ProcessQRCall(qr)
    \/ \E due \in stopTimers : TimerFire(due)
    \/ DataAvailable
    \/ \E hasData \in BOOLEAN : RecorderStopEvent(hasData)
    \/ SaveToFolderDone
    \/ Tick

SavesSpec == TimersInit /\ [][SavesNext]_vars

\* License activation by the host frame and through the activation service
ActivationNext ==
    \/ AppInit
    \/ Reload
    \/ \E ld \in ActivationInputs : ParentMessage(ld)
    \/ \E key \in ApiKeys : ActivateAPICall(key)
    \/ \E resp \in Responses : ActivationResponse(resp)
    \/ PrimaryEmptied
    \/ Jump

ActivationSpec == ActivationInit /\ [][ActivationNext]_vars

\* The order store driven through its public interface within one day
OrdersNext ==
    \/ AppInit
    \/ Reload
    \/ \E data \in OrderInputs : OrdersAddCall(data)
    \/ \E query \in Queries : OrdersSearchCall(query)
    \/ \E id \in OrderIds : OrdersDeleteCall(id)
    \/ OrdersClearCall
    \/ Tick

OrdersSpec == OrdersInit /\ [][OrdersNext]_vars

\* The order store over several days: orders added, deleted, cleared and cleaned up
StoreNext ==
    \/ AppInit
    \/ Reload
    \/ \E data \in FilterInputs : OrdersAddCall(data)
    \/ \E i \in 1..Len(orders) : OrdersDeleteCall(orders[i].id)
    \/ OrdersClearCall
    \/ \E days \in CleanupDays : OrdersCleanupCall(days)
    \/ CheckDailyCall
    \/ Jump

StoreSpec == OrdersInit /\ [][StoreNext]_vars

\* The order history of several days filtered by date
FilterNext ==
    \/ AppInit
    \/ \E data \in FilterInputs : OrdersAddCall(data)
    \/ \E startDate \in FilterDates : \E endDate \in FilterDates :
          OrdersFilterCall(startDate, endDate)
    \/ Jump

FilterSpec == OrdersInit /\ [][FilterNext]_vars

\* The license module driven through its public interface over several days
DailyNext ==
    \/ AppInit
    \/ Reload
    \/ \E ld \in LicenseInputs : ParentMessage(ld)
    \/ CheckDailyCall
    \/ IncrementUsageCall
    \/ Jump

DailySpec == DailyInit /\ [][DailyNext]_vars

\* ------------------------------------------------------------------ properties
\* the callbacks of the last handler include one named `name`
Emitted(name) == \E i \in 1..Len(emitted) : emitted[i][1] = name

\* the instant of the last accepted detection of the running scan session
LastDetectionAt == scanner.scanBlockedUntil - SCAN_LOCK_MS

\* the persisted usage count of the current date (a count stored for another date is 0)
DailyCount(st, t) == GetDailyUsage(st, t).used

\* a step in which the running application commits one more order
OrderCommitted == app.initialized /\ Len(orders') = Len(orders) + 1

\* a step of a handler that calls resetSession or constructs the scanner anew
ResetStep == op'.name \in {"stopAll", "timer", "reload"}

\* C1: once the post-buffer interval after the last detection has elapsed and every
\* timer that was due has run, no recording is in progress any more.
C1_StoppedAfterPostBuffer ==
    (recorder.isRecording /\ scanner.lastQR # None /\ NoTimerDue)
        => now < LastDetectionAt + recorder.postBuffer

C1_RecordingLeftRunning ==
    /\ recorder.isRecording
    /\ recorder.isCameraOn
    /\ app.scanLoopId
    /\ ~scanner.scanBlocked
    /\ stopTimers = {}

\* C2: the order committed for a recording stopped after the detection of one code c
\* carries qrCode = c and productCount = 1.
C2_SingleDetectionOrder ==
    [][(OrderCommitted /\ recorder.recordingMetadata.productCount = 1)
          => /\ orders'[1].qrCode = recorder.recordingMetadata.qrCode
             /\ orders'[1].productCount = 1]_vars

\* C3: a save event raises the persisted usage count of the current date and
\* todayUsed by exactly one when the user is not premium and leaves both unchanged
\* when the user is premium; no other step changes the persisted counter, and
\* todayUsed otherwise changes only by being constructed as 0 or loaded from the
\* persisted counter at start-up.
C3_SaveCountsUsage ==
    [][IF Emitted("onVideoSaved")'
       THEN IF license.isPremium
            THEN store'.daily = store.daily /\ license'.todayUsed = license.todayUsed
            ELSE /\ DailyCount(store', now) = DailyCount(store, now) + 1
                 /\ license'.todayUsed = license.todayUsed + 1
       ELSE /\ store'.daily = store.daily
            /\ \/ license'.todayUsed = license.todayUsed
               \/ op'.name = "reload" /\ license'.todayUsed = 0
               \/ op'.name = "init" /\ license'.todayUsed = DailyCount(store, now)]_vars

\* C4: processQR(c) with c = lastQR while the scanner is blocked changes nothing: the
\* scanner state, the recorder, the timers, the orders and the store stay as they
\* are and no callback is triggered.
C4_DuplicateIsNoOp ==
    [][(op'.name = "processQR" /\ op'.arg = scanner.lastQR /\ scanner.scanBlocked)
          => /\ scanner' = scanner
             /\ emitted' = <<>>
             /\ stopTimers' = stopTimers
             /\ recorder' = recorder
             /\ app' = app
             /\ orders' = orders
             /\ store' = store]_vars

C4_DuplicateIgnoredWhileRecording ==
    /\ op.name = "processQR"
    /\ op.arg = scanner.lastQR
    /\ scanner.scanBlocked
    /\ emitted = <<>>
    /\ recorder.isRecording
    /\ Cardinality(stopTimers) = 1

\* C5: the order committed for a recording during which two different codes were
\* detected carries productCount = 2.
C5_TwoCodesOrder ==
    [][(OrderCommitted /\ recorder.recordingMetadata.productCount = 2)
          => orders'[1].productCount = 2]_vars

\* C6: no step other than one that resets the scan session lowers the product
\* count, and the count a detection event reports is never below the count before
\* the processQR call that triggered it.
C6_CountNeverDecreases ==
    [][/\ ~ResetStep => Len(scanner'.detectedProducts) >= Len(scanner.detectedProducts)
       /\ \A i \in 1..Len(emitted') :
              emitted'[i][1] = "onQRDetected"
                  => emitted'[i][2] >= Len(scanner.detectedProducts)]_vars

C6_SecondCodeCounted ==
    /\ op.name \in {"processQR", "loop"}
    /\ Emitted("onQRDetected")
    /\ Len(scanner.detectedProducts) = 2

\* C7: detectedProducts never holds the same code twice.
C7_NoCodeTwice ==
    \A c \in Codes : Count(scanner.detectedProducts, c) <= 1

C7_SeenAgainByFrameLoop ==
    /\ op.name = "loop"
    /\ now = 2 * SCAN_LOCK_MS
    /\ scanner.detectedProducts = <<"A", "B", "A">>

\* C8: canScanMore is true in every premium state and, in a state that is not
\* premium, true exactly when todayUsed is below the limit; once it is false in a
\* state that is not premium it stays false through every later step of that day,
\* a restart included, as long as the state is not premium.
C8_StateRule ==
    /\ license.isPremium => CanScanMore(license)
    /\ ~license.isPremium => (CanScanMore(license) <=> license.todayUsed < FREE_DAILY_LIMIT)

C8_StepRule ==
    /\ (app.initialized /\ ~license.isPremium /\ ~CanScanMore(license)
          /\ app'.initialized /\ ~license'.isPremium /\ Today(now') = Today(now))
         => ~CanScanMore(license')
    /\ (~app.initialized /\ app'.initialized /\ ~license'.isPremium
          /\ DailyCount(store, now) >= FREE_DAILY_LIMIT)
         => ~CanScanMore(license')

C8_CanScanMore == [][C8_StateRule' /\ C8_StepRule]_vars

\* C9: a detection starts a recording only while canScanMore is true; a detection
\* with the quota used up leaves the recorder alone and triggers onLimitReached.
C9_DetectionGated ==
    [][(op'.name = "processQR" /\ emitted' # <<>>)
          => /\ (~recorder.isRecording /\ recorder'.isRecording) => CanScanMore(license)
             /\ ~CanScanMore(license)
                  => recorder' = recorder /\ Emitted("onLimitReached")']_vars

\* C10: a license check that finds a grace marker whose end lies ahead triggers
\* onRenewalWarning(-1) and keeps the orders; a check that finds a marker whose end
\* has passed clears the orders, removes marker and license record and triggers
\* onGraceExpired; a check that finds no marker never triggers onGraceExpired.
C10_GraceTransitions ==
    [][(~app.initialized /\ app'.initialized)
          => /\ (store.grace.present /\ now < store.grace.graceEndAt)
                  => /\ emitted' = <<Ev("onRenewalWarning", -1)>>
                     /\ store'.orders = store.orders
             /\ (store.grace.present /\ now >= store.grace.graceEndAt)
                  => /\ Count(emitted', Ev("onGraceExpired", 0)) = 1
                     /\ store'.orders = <<>>
                     /\ ~store'.grace.present
                     /\ ~store'.license.present /\ ~store'.cookie.present
             /\ ~store.grace.present => ~Emitted("onGraceExpired")']_vars

\* the grace period: the marker is present and its end lies ahead
InGrace(st, t) == st.grace.present /\ t < st.grace.graceEndAt

\* C11: while the running application is in the grace period canScanMore is true,
\* whatever todayUsed is, and no step taken in the grace period shortens the
\* persisted order history.
C11_GraceKeepsPremium ==
    [][/\ (app'.initialized /\ InGrace(store', now')) => CanScanMore(license')
       /\ (InGrace(store, now) /\ InGrace(store', now'))
            => Len(store'.orders) >= Len(store.orders)]_vars

C11_LimitReachedInGrace ==
    /\ app.initialized
    /\ InGrace(store, now)
    /\ ~license.isPremium
    /\ license.todayUsed >= FREE_DAILY_LIMIT
    /\ Len(store.orders) > 0

\* C12: a license check that finds an expired license record and no grace marker
\* creates the marker with graceEndAt = expiredAt + GRACE_PERIOD_HOURS, removes the
\* record from localStorage and from the cookie, triggers onRenewalWarning(0) and
\* nothing else, leaves isPremium false and keeps the order history.
C12_ExpiredStartsGrace ==
    [][(~app.initialized /\ app'.initialized
          /\ LicenseExpired(store, now) /\ ~store.grace.present)
          => /\ store'.grace.present
             /\ store'.grace.expiredAt = LoadLicense(store).expiresAt
             /\ store'.grace.graceEndAt
                  = LoadLicense(store).expiresAt + GRACE_PERIOD_HOURS * HourMs
             /\ ~store'.license.present
             /\ ~store'.cookie.present
             /\ emitted' = <<Ev("onRenewalWarning", 0)>>
             /\ ~license'.isPremium
             /\ store'.orders = store.orders
             /\ orders' = store.orders]_vars

C12_GraceStartedWithHistory ==
    /\ op.name = "init"
    /\ emitted = <<Ev("onRenewalWarning", 0)>>
    /\ store.grace.present
    /\ store.grace.graceEndAt = JumpMs + GRACE_PERIOD_HOURS * HourMs
    /\ ~store.license.present
    /\ ~license.isPremium
    /\ Len(orders) > 0

\* C13: a start-up check that finds a usage record stored for another date sets
\* todayUsed to 0 and todayDate to today, leaves the persisted count of today at 0
\* and, when the user is not premium, empties the order history; for a premium
\* user the order history is as it was.
C13_RolloverPurges ==
    [][(~app.initialized /\ app'.initialized
          /\ store.daily.present /\ store.daily.date # Today(now))
          => /\ license'.todayUsed = 0
             /\ license'.todayDate = Today(now)
             /\ DailyCount(store', now) = 0
             /\ IF license'.isPremium
                THEN store'.orders = store.orders /\ orders' = store.orders
                ELSE store'.orders = <<>> /\ orders' = <<>>]_vars

C13_HistoryKeptOverRollover ==
    /\ op.name = "init"
    /\ ~license.isPremium
    /\ store.daily.present
    /\ store.daily.date # Today(now)
    /\ license.todayUsed = 0
    /\ Len(orders) > 0

\* C14: the daily check is idempotent: a checkDaily call that directly follows a
\* daily check (at start-up or by another checkDaily call), with no recording and
\* no date change in between, leaves the license state, the persisted usage and the
\* order list, in memory and persisted, as the first check left them; when the
\* stored usage record is not of today, that state has todayUsed = 0 and
\* todayDate = today.
C14_DailyCheckIdempotent ==
    [][(op'.name = "checkDaily" /\ op'.arg \in {"init", "checkDaily"})
          => /\ license' = license
             /\ store' = store
             /\ orders' = orders
             /\ ~(store.daily.present /\ store.daily.date = Today(now))
                  => license'.todayUsed = 0 /\ license'.todayDate = Today(now)]_vars

C14_CheckedTwiceAfterDateChange ==
    /\ op = Op("checkDaily", "checkDaily")
    /\ Today(now) > 0
    /\ store.daily.present
    /\ store.daily.date # Today(now)
    /\ license.todayUsed = 0
    /\ license.todayDate = Today(now)
    /\ Len(orders) > 0

\* the list is in most-recent-first order
MostRecentFirst(list) ==
    \A i, j \in 1..Len(list) : i < j => list[i].id >= list[j].id

\* C15: after every sequence of add calls the list in memory and the persisted list
\* hold at most OrdersCap orders, most recent first, and an add makes both the same
\* list; an add to a full list leaves exactly OrdersCap orders: the new one followed
\* by the former ones without the last, the oldest.
C15_OrderCap ==
    [][/\ Len(orders') <= OrdersCap /\ Len(store'.orders) <= OrdersCap
       /\ MostRecentFirst(orders') /\ MostRecentFirst(store'.orders)
       /\ op'.name = "add" => store'.orders = orders'
       /\ (op'.name = "add" /\ Len(orders) = OrdersCap)
            => /\ Len(orders') = OrdersCap
               /\ orders' = <<emitted'[1][2]>> \o SubSeq(orders, 1, OrdersCap - 1)
               /\ \A i \in 1..Len(orders') : orders'[i].id >= orders[OrdersCap].id]_vars

C15_OldestEvicted ==
    /\ op.name = "add"
    /\ Len(orders) = OrdersCap
    /\ store.orders = orders
    /\ orders[OrdersCap].id > 0
    /\ orders[1].id > orders[OrdersCap].id

\* C16: a search for the code of the order that the directly preceding add returned
\* yields a list containing that order, and a search with an empty query yields the
\* whole list.
C16_AddThenSearch ==
    [][/\ (op.name = "add" /\ op'.name = "search" /\ op'.arg = emitted[1][2].qrCode)
            => \E i \in 1..Len(emitted'[1][2]) : emitted'[1][2][i] = emitted[1][2]
       /\ (op'.name = "search" /\ op'.arg = "") => emitted'[1][2] = orders]_vars

C16_FoundAmongOthers ==
    /\ op = Op("search", "A")
    /\ Len(orders) = OrdersCap
    /\ orders[1].qrCode = "A"
    /\ orders[1].id = now
    /\ now > 0
    /\ Len(emitted[1][2]) = 1
    /\ emitted[1][2][1] = orders[1]

\* C17: a recording is in progress only while the camera is on.
C17_RecordingImpliesCamera == recorder.isRecording => recorder.isCameraOn

C17_RecordingWithoutCamera ==
    /\ op.name = "cameraSelect"
    /\ Emitted("onCameraStop")
    /\ recorder.isRecording
    /\ recorder.recorder
    /\ ~recorder.isCameraOn
    /\ ~recorder.stream

\* C18: a step that stops the camera leaves no post-buffer timer pending, so that
\* no callback scheduled before the stop runs after it.
C18_CameraStopCancelsTimers ==
    [][(recorder.isCameraOn /\ ~recorder'.isCameraOn) => stopTimers' = {}]_vars

C18_CallbackRunsAfterCameraStop ==
    /\ op.name = "timer"
    /\ ~recorder.isCameraOn
    /\ camStart = "idle"
    /\ scanner.lastQR = None
    /\ stopTimers = {}

\* the number of callbacks named `name` that the step triggers
Triggered(name) == Cardinality({i \in 1..Len(emitted') : emitted'[i][1] = name})

\* C19: the stop event of every stopped recording leads to exactly one onVideoSaved,
\* at once or when the write to the folder settles, and no other step triggers
\* one; stopRecording sets the duration to the rounded seconds between the start
\* call and the stop call, nothing else changes it while the application runs, and
\* the order made from the event carries it.
C19_OneSavePerRecording ==
    [][/\ op'.name = "recorderStop"
            => \/ Triggered("onVideoSaved") = 1 /\ saving' = saving
               \/ Triggered("onVideoSaved") = 0 /\ Len(saving') = Len(saving) + 1
       /\ op'.name = "saveDone" => Triggered("onVideoSaved") = 1
       /\ op'.name \notin {"recorderStop", "saveDone"} => Triggered("onVideoSaved") = 0
       /\ Triggered("onVideoSaved") = 1 => orders'[1].duration = recorder.recordingDuration
       /\ op'.name # "reload"
            => IF recorder.isRecording /\ ~recorder'.isRecording
               THEN recorder'.recordingDuration
                      = RoundSeconds(now - recorder.recordingStartTime)
               ELSE recorder'.recordingDuration = recorder.recordingDuration]_vars

C19_StoppedWithoutSaveEvent ==
    /\ op = Op("recorderStop", "empty")
    /\ emitted = <<>>
    /\ recorder.recordingDuration > 0
    /\ ~recorder.isRecording
    /\ pendingStops = 0
    /\ saving = <<>>
    /\ orders = <<>>

\* C20: while the running application is not premium, a step adds an order to the
\* persisted history exactly when it raises the persisted usage count of the day
\* by one, and the step that commits an order leaves todayUsed equal to that count:
\* no state lies between the commit and the count.
C20_CommitAndCountTogether ==
    [][(app.initialized /\ app'.initialized /\ ~license.isPremium)
          => /\ (Len(store'.orders) = Len(store.orders) + 1)
                  <=> (DailyCount(store', now') = DailyCount(store, now) + 1)
             /\ OrderCommitted
                  => /\ store'.orders = orders'
                     /\ license'.todayUsed = DailyCount(store', now')]_vars

C20_SavedAndCounted ==
    /\ op.name = "recorderStop"
    /\ Emitted("onVideoSaved")
    /\ ~license.isPremium
    /\ Len(orders) = 2
    /\ store.orders = orders
    /\ store.daily.date = Today(now)
    /\ store.daily.used = 2
    /\ license.todayUsed = 2

\* a step of a handler through which a detection can arrive
DetectionStep == op'.name \in {"processQR", "loop", "startScanLoop"}

\* C21: a detection that arrives while a recording is in progress leaves the
\* recorder as it is (same MediaRecorder, same start time, same chunks), starts no
\* recording and ends none; a recording is started only from a state in which
\* none is in progress.
C21_OneRecording ==
    [][/\ (DetectionStep /\ recorder.isRecording)
            => /\ recorder' = recorder
               /\ recordingsLeft' = recordingsLeft
               /\ Triggered("onRecordingStart") = 0
               /\ pendingStops' = pendingStops
               /\ saving' = saving
               /\ orders' = orders
       /\ Triggered("onRecordingStart") > 0
            => /\ Triggered("onRecordingStart") = 1
               /\ ~recorder.isRecording
               /\ recorder'.isRecording]_vars

C21_SecondCodeWhileRecording ==
    /\ op = Op("processQR", "B")
    /\ Emitted("onQRDetected")
    /\ scanner.detectedProducts = <<"A", "B">>
    /\ recorder.isRecording
    /\ recorder.recordingStartTime < now
    /\ recorder.chunks > 0

\* C22: a post-buffer callback stops the recording only if one is in progress and
\* the scanner is not locked at that instant (isBlocked is false and the lock
\* window has ended); a callback that runs while the scanner is locked, or while
\* nothing is recorded, changes nothing.
C22_TimerHonouredWhenUnlocked ==
    [][op'.name = "timer"
          => /\ (recorder' # recorder \/ pendingStops' # pendingStops)
                  => /\ recorder.isRecording
                     /\ ~scanner.scanBlocked
                     /\ now >= scanner.scanBlockedUntil
                     /\ ~recorder'.isRecording
             /\ (scanner.scanBlocked \/ now < scanner.scanBlockedUntil
                   \/ ~recorder.isRecording)
                  => /\ recorder' = recorder
                     /\ scanner' = scanner
                     /\ app' = app
                     /\ pendingStops' = pendingStops
                     /\ saving' = saving
                     /\ orders' = orders
                     /\ store' = store
                     /\ license' = license
                     /\ emitted' = <<>>]_vars

C22_StoppedByTimer ==
    /\ op.name = "timer"
    /\ ~recorder.isRecording
    /\ recorder.isCameraOn
    /\ pendingStops = 1
    /\ recorder.recordingDuration > 0
    /\ scanner.lastQR = None

C22_SupersededWhileLocked ==
    /\ op.name = "timer"
    /\ recorder.isRecording
    /\ scanner.scanBlocked
    /\ now < scanner.scanBlockedUntil

\* C23: the scanner's locked flag is true exactly while the lock window lasts.
C23_LockedIffInWindow == scanner.scanBlocked <=> now < scanner.scanBlockedUntil

C23_FlagOutlivesWindow ==
    /\ scanner.scanBlocked
    /\ now >= scanner.scanBlockedUntil
    /\ scanner.scanBlockedUntil > 0
    /\ recorder.isRecording
    /\ op.name = "tick"

\* C24: every step that ends a lock (the flag goes from true to false while the
\* application runs) triggers onScanUnblocked exactly once, and the event is
\* triggered at most once per step and only by a step that finds the scanner locked.
C24_UnlockEventOncePerCycle ==
    [][/\ (scanner.scanBlocked /\ ~scanner'.scanBlocked /\ op'.name # "reload")
            => Triggered("onScanUnblocked") = 1
       /\ Triggered("onScanUnblocked") > 0
            => /\ Triggered("onScanUnblocked") = 1
               /\ scanner.scanBlocked]_vars

C24_UnlockedSilently ==
    /\ op.name = "stopAll"
    /\ ~scanner.scanBlocked
    /\ ~Emitted("onScanUnblocked")
    /\ pendingStops = 1
    /\ stopTimers # {}
    /\ NoTimerDue

\* C25: whenever a license check or an accepted activation leaves isPremium true,
\* the expiry it stored lies after the instant of that operation.
C25_PremiumNotExpired ==
    [][((op'.name = "init" \/ (op'.name = "activateLocal" /\ Emitted("onStatusChange")'))
          /\ license'.isPremium)
          => now' < license'.expiresAt]_vars

C25_ActivatedExpired ==
    /\ op = Op("activateLocal", "K1")
    /\ license.isPremium
    /\ now > license.expiresAt
    /\ license.daysRemaining < 0
    /\ store.license.present

\* C26: activateLocal with an empty key changes neither the persisted license
\* record, the cookie, the grace marker nor the license state and triggers no
\* callback.
C26_EmptyKeyRejected ==
    [][(op'.name = "activateLocal" /\ op'.arg = "")
          => /\ store' = store
             /\ license' = license
             /\ emitted' = <<>>]_vars

C26_RejectedInGrace ==
    /\ op = Op("activateLocal", "")
    /\ emitted = <<>>
    /\ store.grace.present
    /\ ~store.license.present
    /\ ~license.isPremium

\* C27: activateAPI with a key of at least ApiKeyMinLength characters issues no
\* request when loadLicense yields a record whose key equals the given key up to
\* letter case and whose expiry lies ahead, and then resolves as already active
\* with isPremium set; with such a key in every other case it issues exactly one
\* request.
C27_RequestUnlessActiveLocally ==
    [][(op'.name = "activateAPI" /\ Len(op'.arg) >= ApiKeyMinLength)
          => IF /\ LoadLicense(store).present
                /\ ToUpperCase(LoadLicense(store).licenseKey) = ToUpperCase(op'.arg)
                /\ now < LoadLicense(store).expiresAt
             THEN /\ Triggered("fetch") = 0
                  /\ activation' = activation
                  /\ emitted' = <<Ev("resolve", "local")>>
                  /\ license'.isPremium
             ELSE /\ Triggered("fetch") = 1
                  /\ Len(activation') = Len(activation) + 1]_vars

C27_ActiveUnderOtherCase ==
    /\ op = Op("activateAPI", "aaaaaaaaaa-bbbbbbbbbb-aaaaaaaaaa")
    /\ store.license.licenseKey = "AAAAAAAAAA-BBBBBBBBBB-AAAAAAAAAA"
    /\ emitted = <<Ev("resolve", "local")>>
    /\ activation = <<>>
    /\ license.isPremium

C29_BackupRoundTrip ==
    [][/\ ((op'.name = "activateLocal" /\ op'.arg # "") \/ op' = Op("activationResponse", "success"))
            => /\ store'.license.present
               /\ store'.license.licenseKey
                     = (IF op'.name = "activateLocal" THEN op'.arg ELSE Head(activation))
               /\ LoadLicense(store') = store'.license
               /\ LoadLicense([store' EXCEPT !.license = NoLicense]) = store'.license
               /\ LoadLicenseStore([store' EXCEPT !.license = NoLicense]) = store'
       /\ op'.name = "primaryEmptied"
            => /\ ~store'.license.present
               /\ LoadLicense(store') = store.license
               /\ LoadLicenseStore(store') = store
       /\ (op'.name = "activateAPI" /\ Len(op'.arg) >= ApiKeyMinLength
              /\ ~store.license.present /\ store.cookie.present)
            => /\ store'.license = LoadLicense(store)
               /\ store'.cookie = store.cookie
               /\ LoadLicense(store') = LoadLicense(store)
       /\ (op'.name = "init" /\ ~store.grace.present
              /\ (store.license.present \/ store.cookie.present)
              /\ now >= LoadLicense(store).expiresAt)
            => /\ ~store'.license.present
               /\ ~store'.cookie.present
               /\ ~LoadLicense(store').present]_vars

C29_OnlyBackupLeft ==
    /\ op.name = "primaryEmptied"
    /\ ~store.license.present
    /\ store.cookie.present
    /\ store.cookie.licenseKey = "K%20%251"
    /\ LoadLicense(store).licenseKey = "K %1"

\* a license check has removed an expired record from localStorage and the cookie
C29_ClearedBoth ==
    /\ op.name = "init"
    /\ store.grace.present
    /\ ~store.license.present
    /\ ~store.cookie.present
    /\ ~license.isPremium

\* an activateAPI call has put the record of the cookie back into localStorage
C29_RestoredByCall ==
    /\ op.name = "activateAPI"
    /\ activation # <<>>
    /\ store.license.licenseKey = "K %1"
    /\ store.cookie.licenseKey = "K%20%251"

\* C30: in every state the scan loop is scheduled (scanLoopId is set) exactly when
\* the camera is on.
C30_LoopRunsIffCameraOn == app.scanLoopId <=> recorder.isCameraOn

C30_CameraOnWithoutLoop ==
    /\ op = Op("getUserMedia", "ok")
    /\ recorder.isCameraOn
    /\ recorder.stream
    /\ ~app.scanLoopId

\* the scanner session as resetSession leaves it
SessionFresh(s) ==
    s.lastQR = None /\ ~s.scanBlocked /\ s.scanBlockedUntil = 0 /\ s.detectedProducts = <<>>

\* C31: a recording starts from a reset scanner session, and whenever a camera
\* start succeeds (the first start, a start after stopAll, a camera switch) the
\* session is reset, so that the codes counted from then on do not include codes
\* detected before the previous capture ended.
C31_SessionResetBetweenRecordings ==
    [][/\ Triggered("onRecordingStart") > 0
            => scanner.lastQR = None /\ scanner.detectedProducts = <<>>
       /\ op' = Op("getUserMedia", "ok") => SessionFresh(scanner')]_vars

C31_CountSpansCameraSwitch ==
    /\ op.name = "processQR"
    /\ recorder.isCameraOn
    /\ recorder.isRecording
    /\ ~recorder.canvasStream
    /\ Len(scanner.detectedProducts) = 2

\* C32: a pass of the frame loop attempts a decode (it moves lastScanTime or
\* yields a detection) only when the time is not before scanBlockedUntil and at
\* least scanInterval after the previous attempt; so the loop yields no detection
\* inside a lock window and no two attempts are closer than scanInterval.
C32_DecodeOutsideLockAtInterval ==
    [][(/\ op'.name \in {"loop", "startScanLoop"}
        /\ (scanner'.lastScanTime # scanner.lastScanTime \/ Triggered("onQRDetected") > 0))
          => /\ ~(now < scanner.scanBlockedUntil)
             /\ now - scanner.lastScanTime >= scanner.scanInterval
             /\ scanner'.lastScanTime = now]_vars

C32_CodeInFrameWhileLocked ==
    /\ op.name = "loop"
    /\ op.arg # None
    /\ op.arg # scanner.lastQR
    /\ emitted = <<>>
    /\ scanner.scanBlocked
    /\ now < scanner.scanBlockedUntil

\* a frame with a code follows an attempt at the same instant outside a lock window
C32_CodeInFrameTooSoon ==
    /\ op.name = "loop"
    /\ op.arg # None
    /\ emitted = <<>>
    /\ ~scanner.scanBlocked
    /\ scanner.lastScanTime = now
    /\ now > 0
    /\ scanner.lastQR = None

\* C33: every license callback is triggered with its handler registered; in
\* particular the renewal warning and the grace-expired event of the check at
\* startup reach the handlers of the orchestrator.
C33_LicenseEventsHaveHandler ==
    [][\A i \in 1..Len(emitted') :
          emitted'[i][1] \in LicenseEvents => LicenseHandlersRegistered(app)]_vars

C33_StartupWarningUnheard ==
    /\ op.name = "init"
    /\ license.isPremium
    /\ license.daysRemaining <= RENEWAL_WARNING_DAYS
    /\ emitted = <<Ev("onRenewalWarning", license.daysRemaining)>>

\* C34: when getUserMedia fails, the camera is off and no recording is in progress
\* afterwards, exactly one onError is triggered and no start is under way; and a
\* camera start is begun only by a click on the camera button or by a change of
\* the camera selection.
C34_FailedStartLeavesIdle ==
    [][/\ op' = Op("getUserMedia", "error")
            => /\ ~recorder'.isCameraOn
               /\ ~recorder'.stream
               /\ ~recorder'.isRecording
               /\ emitted' = <<Ev("onError", 0)>>
               /\ camStart' = "idle"
       /\ (camStart = "idle" /\ camStart' # "idle")
            => op'.name \in {"startCamera", "cameraSelect"}]_vars

C34_SwitchFailedWhileRecording ==
    /\ op = Op("getUserMedia", "error")
    /\ emitted = <<Ev("onError", 0)>>
    /\ ~recorder.isCameraOn
    /\ recorder.isRecording
    /\ camStart = "idle"

\* C35: in every state the ids of the orders strictly decrease from the head of
\* the list to its tail, so that no two orders share an id.
C35_OrderIdsDistinct ==
    \A i \in 1..Len(orders) : \A j \in 1..Len(orders) :
        i < j => orders[i].id > orders[j].id

C35_TwoOrdersOneId ==
    /\ op.name = "add"
    /\ Len(orders) = 2
    /\ orders[1].id = orders[2].id
    /\ orders[1].qrCode # orders[2].qrCode

\* delete(id) has removed one order and another order with that id is left
C35_DeletedIdStillListed ==
    /\ op.name = "delete"
    /\ Emitted("onOrderDeleted")
    /\ \E i \in 1..Len(orders) : orders[i].id = op.arg

\* the day/month/year dates among FilterDates and the day each of them names
CalendarDay(str) ==
    CASE str = "01/01/1970" -> 0
      [] str = "02/01/1970" -> 1
      [] OTHER -> Undef

\* C36: filterByDate returns the whole order list when the start or the end is
\* not a day/month/year date, and otherwise exactly the orders dated from the
\* start day to the end day, both included, in their order.
C36_FilterByDate ==
    [][op'.name = "filterByDate"
          => LET call == emitted'[1][2]
             IN IF CalendarDay(call.startDate) = Undef \/ CalendarDay(call.endDate) = Undef
                THEN call.result = orders
                ELSE call.result =
                       SelectSeq(orders, LAMBDA o :
                          /\ o.date >= CalendarDay(call.startDate)
                          /\ o.date <= CalendarDay(call.endDate))]_vars

C36_NoNumbersGivesNothing ==
    /\ op.name = "filterByDate"
    /\ emitted[1][2].startDate = "aa/bb/cccc"
    /\ emitted[1][2].endDate = "02/01/1970"
    /\ Len(orders) = 2
    /\ emitted[1][2].result = <<>>

\* an inclusive range over one of two days returns the order of that day
C36_OneDayOfTwo ==
    /\ op.name = "filterByDate"
    /\ emitted[1][2].startDate = "02/01/1970"
    /\ emitted[1][2].endDate = "02/01/1970"
    /\ Len(orders) = 2
    /\ orders[2].date = 0
    /\ emitted[1][2].result = <<orders[1]>>

\* a free user with nothing of a license stored: no record, no backup, no grace marker
NeverPremium ==
    /\ ~license.isPremium
    /\ ~store.license.present /\ ~store.cookie.present /\ ~store.grace.present

\* C37: while the user is free with no license stored and the usage shown is that of the
\* current day, todayUsed does not exceed FREE_DAILY_LIMIT.
C37_UsageWithinLimit ==
    (NeverPremium /\ license.todayDate = Today(now))
        => license.todayUsed <= FREE_DAILY_LIMIT

C37_SavedBeyondLimit ==
    /\ op.name = "recorderStop"
    /\ NeverPremium
    /\ license.todayDate = Today(now)
    /\ license.todayUsed = FREE_DAILY_LIMIT + 1
    /\ store.daily.used = FREE_DAILY_LIMIT + 1
    /\ Emitted("onVideoSaved")

\* C38: when the write of a recording to the folder settles while a newer
\* recording is in progress or waits for its stop event, the chunks and the
\* metadata the recorder holds, which belong to the newer recording, are kept.
C38_SaveKeepsNewerRecording ==
    [][(op'.name = "saveDone" /\ (recorder.isRecording \/ pendingStops > 0))
          => /\ recorder'.chunks = recorder.chunks
             /\ recorder'.recordingMetadata = recorder.recordingMetadata]_vars

C38_NewerMetadataWiped ==
    /\ op.name = "saveDone"
    /\ pendingStops > 0
    /\ ~recorder.isRecording
    /\ recorder.recordingMetadata = NoMetadata
    /\ recorder.chunks = 0

\* the steps that run an operation of QRLicense: init, activateLocal, the
\* canScanMore of startCamera, checkDaily and incrementUsage
LicenseOperation == op'.name \in {"init", "activateLocal", "startCamera", "checkDaily", "incrementUsage"}

\* C39: after every operation of the license module todayUsed is the persisted
\* usage count of the current date, 0 when the persisted record is of another
\* date; so a free user is let start the camera whenever that count is below
\* the limit.
C39_TodayUsedFollowsStore ==
    [][LicenseOperation
          => /\ license'.todayUsed = DailyCount(store', now')
             /\ (op'.name = "startCamera" /\ ~license.isPremium
                    /\ DailyCount(store, now) < FREE_DAILY_LIMIT)
                  => ~Emitted("showLimitModal")']_vars

C39_BlockedOnNextDay ==
    /\ op.name = "startCamera"
    /\ emitted = <<Ev("showLimitModal", 0)>>
    /\ ~license.isPremium
    /\ license.todayUsed = FREE_DAILY_LIMIT
    /\ license.todayDate < Today(now)
    /\ DailyCount(store, now) = 0

\* C40: after init (the checks of the license, then loadOrders and
\* cleanupOldOrders), add, delete, clear, cleanup and a check of the daily limit
\* the order list in memory is the stored order list, the same orders in the
\* same order.
C40_MemoryIsStore ==
    [][op'.name \in {"init", "add", "delete", "clear", "cleanup", "checkDaily"}
          => orders' = store'.orders]_vars

\* a cleanup dropped the order of an earlier day and kept the order of today
C40_CleanupDroppedAnOrder ==
    /\ op = Op("cleanup", 1)
    /\ emitted = <<Ev("cleanup", 1)>>
    /\ Len(orders) = 1
    /\ orders[1].date = Today(now)
    /\ store.orders = orders

====
